---- MODULE Spec2Model ----
(***************************************************************************)
(* Model of the SnowEx/GSR2 Metashape workflow.                            *)
(*                                                                         *)
(* Two programs live in the repository and both are modelled:              *)
(*   "image_processor"  src/metashape/image_processor.py (class            *)
(*                      ImageProcessor with filter.py / accuracy.py)       *)
(*   "process_images"   src/metashape/process-images.py (the stand-alone   *)
(*                      script with its own ImageProcessor and __main__)   *)
(*                                                                         *)
(* Numbers.  Criterion scores and thresholds are integers in tenths        *)
(* (Filter.REPROJECTION_ERROR = 0.3 is 3), max_removed / max_percent is an *)
(* integer number of hundredths (FIFTY_PERCENT = 0.5 is 50) and the test   *)
(* selected / total > max_percent is computed exactly by cross             *)
(* multiplication.  Scale-bar distances are hundredths of a metre.         *)
(*                                                                         *)
(* The Metashape engine is external.  Its calls are modelled by what the   *)
(* Metashape Python API documents: Filter.selectPoints(t) selects exactly  *)
(* the points whose criterion value exceeds t, Filter.removePoints(t)      *)
(* removes them (valid becomes False), PointCloud.setConfidenceFilter(a,b) *)
(* leaves visible the points with a <= confidence <= b and                 *)
(* PointCloud.removePoints(classes) removes the visible points of the      *)
(* listed classes.                                                         *)
(***************************************************************************)
EXTENDS Integers, Sequences, FiniteSets, TLC

VARIABLES
    variant,       \* which of the two programs runs
    pc,            \* control position
    stack,         \* return positions of the calls in progress
    step,          \* build_point_cloud: index of the step being run
    env,           \* what the run is given: [exists, images, export, marker_file, distance]
    log,           \* engine calls made so far: [call, arg, by]
    exit_status,   \* -1 while running, else the status the process ended with
    error,         \* "" or the name of the exception that ended the run
    markers,       \* labels of chunk.markers
    marker_list,   \* rows the scale-bar loop iterates over: <<id1, id2, distance>>
    ri,            \* index of the row the scale-bar loop is at
    scalebars,     \* chunk.scalebars: [m1, m2, accuracy, distance]
    diagnostics,   \* warnings printed
    points,        \* chunk.tie_points.points: [valid, selected, score]
    flt,           \* remove_by_criteria / threshold_for_percent locals and entry snapshot
    stage,         \* filter_sparse_cloud: stages completed
    dense          \* chunk.point_cloud: [count, class, present, removed_by]

vars == <<variant, pc, stack, step, env, log, exit_status, error, markers,
          marker_list, ri, scalebars, diagnostics, points, flt, stage, dense>>

-----------------------------------------------------------------------------
(* Bounds of the model *)

MaxPoints == 3
MaxScore == 3
MaxThreshold == 1
MaxStep == 2

-----------------------------------------------------------------------------
(* Program constants *)

Variants == {"image_processor", "process_images"}

Criteria == {"ReconstructionUncertainty", "ProjectionAccuracy", "ReprojectionError"}

\* filter.py: class Filter (tenths)
RECONSTRUCTION_UNCERTAINTY == 100
REPROJECTION_ERROR == 3
PROJECTION_ACCURACY == 50
DEPTH_MAP_MINIMUM == 1

\* image_processor.py: FIFTY_PERCENT = 0.5 (hundredths)
FIFTY_PERCENT == 50

\* The attributes class Filter defines, by program.  Reading any other
\* attribute of the class raises AttributeError.
FilterAttributes(v) ==
    {"RECONSTRUCTION_UNCERTAINTY", "REPROJECTION_ERROR", "PROJECTION_ACCURACY",
     "DEPTH_MAP_MINIMUM", "DENSE_CLOUD_POINT_SPACING"}

-----------------------------------------------------------------------------
(* Small helpers *)

Ids == 1..MaxPoints

Append2(s, a, b) == Append(Append(s, a), b)

Call(c, a, b) == [call |-> c, arg |-> a, by |-> b]

\* sys.exit(n) / an uncaught exception: the status the operating system sees
ExitCode(n) == n % 256

-----------------------------------------------------------------------------
(* Sparse cloud: counting, selecting, removing *)

\* Defective variant of count_sparse_points: the points that are no longer
\* valid are counted too
CountIgnoringValid(pts, filtered) ==
    Cardinality({i \in DOMAIN pts : pts[i].selected = filtered})

\* count_sparse_points(filtered): valid points whose selected flag is `filtered`
count_sparse_points(pts, filtered) ==
    Cardinality({i \in DOMAIN pts : pts[i].valid /\ pts[i].selected = filtered})

\* Metashape.TiePoints.Filter.selectPoints(threshold) after init(chunk, criterion)
selectPoints(pts, criterion, threshold) ==
    [i \in DOMAIN pts |->
        [pts[i] EXCEPT !.selected = pts[i].valid /\ pts[i].score[criterion] > threshold]]

\* Metashape.TiePoints.Filter.removePoints(threshold)
removePointsTie(pts, criterion, threshold) ==
    [i \in DOMAIN pts |->
        IF pts[i].valid /\ pts[i].score[criterion] > threshold
        THEN [pts[i] EXCEPT !.valid = FALSE]
        ELSE pts[i]]

\* Defective variant of ExceedsCap: max_percent taken for a percentage (0 to
\* 100) while percent_selected is a fraction
PercentUnitsExceedsCap(selected_points, sparse_points, max_percent) ==
    selected_points * 100 > max_percent * 100 * sparse_points

\* while percent_selected > max_percent, with percent_selected =
\* selected_points / sparse_points and max_percent in hundredths
ExceedsCap(selected_points, sparse_points, max_percent) ==
    selected_points * 100 > max_percent * sparse_points

\* Defective variant of UsesSearch: the search runs whatever max_removed is
AlwaysSearch(v, max_removed) == v = "image_processor"

\* remove_by_criteria: if max_removed > 0 (image_processor.py only; the
\* process-images.py method has no such parameter and never searches)
UsesSearch(v, max_removed) == v = "image_processor" /\ max_removed > 0

-----------------------------------------------------------------------------
(* Values of the variables that an entry point does not use *)

NoFilter ==
    [criterion |-> "", threshold |-> 0, step_size |-> 0, max_removed |-> 0,
     sparse_points |-> 0, selected_points |-> 0, searched |-> FALSE,
     threshold0 |-> 0, valid0 |-> {}, selected0 |-> {}, removed |-> {},
     calls |-> 0]

NoEnv == [exists |-> TRUE, images |-> 0, export |-> FALSE, marker_file |-> <<>>,
          distance |-> 0]

\* The locals of one remove_by_criteria call, with a snapshot of the cloud
\* at the call
FilterCall(pts, criterion, threshold, step_size, max_removed) ==
    [criterion |-> criterion, threshold |-> threshold, step_size |-> step_size,
     max_removed |-> max_removed, sparse_points |-> 0, selected_points |-> 0,
     searched |-> FALSE, threshold0 |-> threshold,
     valid0 |-> {i \in DOMAIN pts : pts[i].valid},
     selected0 |-> {i \in DOMAIN pts : pts[i].valid /\ pts[i].selected},
     removed |-> {}, calls |-> 0]

\* The locals of a remove_by_criteria call that follows the call `prev`:
\* `removed` keeps the points the calls before it removed since the entry
\* point was invoked, `calls` the number of invocations of the entry point
\* that are over
NextCall(prev, pts, criterion, threshold, step_size, max_removed) ==
    [FilterCall(pts, criterion, threshold, step_size, max_removed) EXCEPT
        !.removed = prev.removed \cup {i \in prev.valid0 : ~pts[i].valid},
        !.calls = prev.calls]

\* Leaving the method that is running: back to its caller
Return == pc' = Head(stack) /\ stack' = Tail(stack)

\* An exception nothing catches ends the interpreter with status 1
Raise(name) ==
    /\ pc' = "crashed"
    /\ error' = name
    /\ exit_status' = ExitCode(1)
    /\ stack' = <<>>

\* The method on whose behalf remove_by_criteria talks to the engine
Caller == IF Len(stack) > 0 /\ Head(stack) = "optimize" THEN "filter_sparse_cloud"
          ELSE "remove_by_criteria"

-----------------------------------------------------------------------------
(* remove_by_criteria and threshold_for_percent *)

\* remove_by_criteria: init the filter, then search or remove directly
remove_by_criteria ==
    /\ pc = "remove_by_criteria"
    /\ IF UsesSearch(variant, flt.max_removed)
       THEN /\ pc' = "threshold_for_percent"
            /\ UNCHANGED <<points, log, stack>>
       ELSE /\ points' = removePointsTie(points, flt.criterion, flt.threshold)
            /\ log' = Append(log, Call("removePoints", flt.criterion, Caller))
            /\ Return
    /\ UNCHANGED <<variant, step, env, exit_status, error, markers, marker_list,
                   ri, scalebars, diagnostics, flt, stage, dense>>

\* threshold_for_percent up to the first evaluation of the fraction
threshold_for_percent ==
    /\ pc = "threshold_for_percent"
    /\ LET sparse == count_sparse_points(points, FALSE)
           marked == selectPoints(points, flt.criterion, flt.threshold)
           selected == count_sparse_points(marked, TRUE)
       IN  /\ points' = marked
           /\ flt' = [flt EXCEPT !.sparse_points = sparse,
                                 !.selected_points = selected,
                                 !.searched = TRUE]
           /\ IF sparse = 0
              THEN Raise("ZeroDivisionError")
              ELSE pc' = "while" /\ UNCHANGED <<stack, error, exit_status>>
    /\ UNCHANGED <<variant, step, env, log, markers, marker_list, ri, scalebars,
                   diagnostics, stage, dense>>

\* while percent_selected > max_percent: one evaluation of the condition;
\* when it is false the method returns threshold
while_test ==
    /\ pc = "while"
    /\ pc' = IF ExceedsCap(flt.selected_points, flt.sparse_points, flt.max_removed)
             THEN "loop_body" ELSE "returned"
    /\ UNCHANGED <<variant, stack, step, env, log, exit_status, error, markers,
                   marker_list, ri, scalebars, diagnostics, points, flt, stage, dense>>

\* the body of the loop: raise the threshold, select again, count again
loop_body ==
    /\ pc = "loop_body"
    /\ LET t == flt.threshold + flt.step_size
           marked == selectPoints(points, flt.criterion, t)
       IN  /\ points' = marked
           /\ flt' = [flt EXCEPT !.threshold = t,
                                 !.selected_points = count_sparse_points(marked, TRUE)]
    /\ pc' = "while"
    /\ UNCHANGED <<variant, stack, step, env, log, exit_status, error, markers,
                   marker_list, ri, scalebars, diagnostics, stage, dense>>

\* remove_by_criteria after the search returned: removePoints(threshold)
remove_after_search ==
    /\ pc = "returned"
    /\ points' = removePointsTie(points, flt.criterion, flt.threshold)
    /\ log' = Append(log, Call("removePoints", flt.criterion, Caller))
    /\ Return
    /\ UNCHANGED <<variant, step, env, exit_status, error, markers, marker_list,
                   ri, scalebars, diagnostics, flt, stage, dense>>

-----------------------------------------------------------------------------
(* Entry point: remove_by_criteria called on any sparse cloud *)

MaxCalls == 2

MaxRemovedChoices == {0, 25, 50, 100}

SearchCriterion == "ReconstructionUncertainty"

ScoreOf(c, s) == [k \in Criteria |-> IF k = c THEN s ELSE 0]

\* Points of a cloud scored on one criterion.  A removed point keeps the
\* highest score, which is what got it removed.
SearchPointChoices ==
    {[valid |-> TRUE, selected |-> sel, score |-> ScoreOf(SearchCriterion, s)] :
        sel \in BOOLEAN, s \in 0..MaxScore}
    \cup {[valid |-> FALSE, selected |-> sel, score |-> ScoreOf(SearchCriterion, MaxScore)] :
        sel \in BOOLEAN}

\* The code only counts points and the engine treats each point alike, so
\* clouds are taken up to the order of their points
Rank(p) == p.score[SearchCriterion] * 4 + (IF p.valid THEN 2 ELSE 0)
           + (IF p.selected THEN 1 ELSE 0)

Ordered(pts) == \A i \in DOMAIN pts : \A j \in DOMAIN pts :
                    i < j => Rank(pts[i]) <= Rank(pts[j])

SearchInit ==
    /\ variant \in Variants
    /\ pc = "remove_by_criteria"
    /\ stack = <<"done">>
    /\ points \in {pts \in [Ids -> SearchPointChoices] : Ordered(pts)}
    /\ \E t \in 0..MaxThreshold :
          \E s \in 0..MaxStep :
             \E m \in MaxRemovedChoices :
                /\ variant = "process_images" => s = 0 /\ m = 0
                /\ flt = FilterCall(points, SearchCriterion, t, s, m)
    /\ step = 0
    /\ env = NoEnv
    /\ log = <<>>
    /\ exit_status = -1
    /\ error = ""
    /\ markers = {}
    /\ marker_list = <<>>
    /\ ri = 0
    /\ scalebars = <<>>
    /\ diagnostics = <<>>
    /\ stage = 0
    /\ dense = <<>>

\* The caller invokes remove_by_criteria once more, with the arguments of
\* the call that just returned, on the cloud that call left
call_again ==
    /\ pc = "done"
    /\ flt.calls + 1 < MaxCalls
    /\ flt' = [NextCall(flt, points, flt.criterion, flt.threshold0, flt.step_size,
                        flt.max_removed) EXCEPT !.calls = flt.calls + 1]
    /\ pc' = "remove_by_criteria"
    /\ stack' = <<"done">>
    /\ UNCHANGED <<variant, step, env, log, exit_status, error, markers,
                   marker_list, ri, scalebars, diagnostics, points, stage, dense>>

SearchNext ==
    \/ remove_by_criteria
    \/ threshold_for_percent
    \/ while_test
    \/ loop_body
    \/ remove_after_search
    \/ call_again

SpecSearch == SearchInit /\ [][SearchNext]_vars

\* The interpreter keeps executing the statement it is at
FairSearch == SpecSearch /\ WF_vars(SearchNext)

-----------------------------------------------------------------------------
(* Scale bars: add_scalebars of both programs *)

MaxMarkerId == 4
MaxRecords == 2

\* Accuracy.SCALEBAR in hundredths of a metre: accuracy.py and process-images.py
SCALEBAR == 1
SCALEBAR_LEGACY == 3

\* detect_and_scale_markers(marker_count = 6, distance = 0.35)
MARKER_COUNT == 6
MARKER_DISTANCE == 35

ScalebarAccuracy(v) == IF v = "image_processor" THEN SCALEBAR ELSE SCALEBAR_LEGACY

\* MARKER_STRING = Template('target ${id}'); substitute(id = ...) on a CSV
\* field (a string) and on an integer of range(1, 6, 2)
MARKER_STRING(id) == "target " \o id

MARKER_STRING_int(n) == "target " \o ToString(n)

\* range(start, stop, by) for by > 0, as a sequence
RECURSIVE PyRange(_, _, _)
PyRange(start, stop, by) ==
    IF start >= stop THEN <<>> ELSE <<start>> \o PyRange(start + by, stop, by)

\* float(marker_pair[2]) on the distance fields that occur, in hundredths
FloatOf(s) ==
    CASE s = "0.33" -> 33
      [] s = "0.50" -> 50
      [] s = ".5" -> 50

\* The two labels a row of the loop stands for
RowLabels(v, row) ==
    IF v = "image_processor"
    THEN <<MARKER_STRING(row[1]), MARKER_STRING(row[2])>>
    ELSE <<MARKER_STRING_int(row), MARKER_STRING_int(row + 1)>>

RowDistance(v, row, distance) ==
    IF v = "image_processor" THEN FloatOf(row[3]) ELSE distance

\* Defective variant of BothDetected: `or` in place of `and`
EitherDetected(marker_1, marker_2, marker_dict) ==
    marker_1 \in marker_dict \/ marker_2 \in marker_dict

\* if marker_1 in marker_dict.keys() and marker_2 in marker_dict.keys()
BothDetected(marker_1, marker_2, marker_dict) ==
    marker_1 \in marker_dict /\ marker_2 \in marker_dict

\* The else branch: image_processor.py prints a warning naming the pair,
\* process-images.py has no else branch
PairWarning(v, marker_1, marker_2) ==
    IF v = "image_processor"
    THEN <<[kind |-> "pair_not_found", m1 |-> marker_1, m2 |-> marker_2]>>
    ELSE <<>>

\* The method that calls add_scalebars
ScaleCaller ==
    IF Len(stack) > 0 /\ Head(stack) = "setup_camera" THEN "detect_and_scale_markers"
    ELSE IF Len(stack) > 0 /\ Head(stack) = "build_point_cloud" THEN "build_point_cloud"
    ELSE ""

\* add_scalebars up to the loop: the rows to iterate over
add_scalebars ==
    /\ pc = "add_scalebars"
    /\ marker_list' = IF variant = "image_processor"
                      THEN env.marker_file
                      ELSE PyRange(1, 6, 2)
    /\ ri' = 1
    /\ log' = Append(log, Call("add_scalebars", "", ScaleCaller))
    /\ pc' = "scale_loop"
    /\ UNCHANGED <<variant, stack, step, env, exit_status, error, markers,
                   scalebars, diagnostics, points, flt, stage, dense>>

\* one iteration of the loop over the rows
scale_loop ==
    /\ pc = "scale_loop"
    /\ ri <= Len(marker_list)
    /\ LET labels == RowLabels(variant, marker_list[ri])
           marker_1 == labels[1]
           marker_2 == labels[2]
       IN  IF BothDetected(marker_1, marker_2, markers)
           THEN /\ scalebars' = Append(scalebars,
                       [m1 |-> marker_1, m2 |-> marker_2,
                        accuracy |-> ScalebarAccuracy(variant),
                        distance |-> RowDistance(variant, marker_list[ri], env.distance)])
                /\ log' = Append(log, Call("addScalebar", marker_1, "add_scalebars"))
                /\ UNCHANGED diagnostics
           ELSE /\ diagnostics' = diagnostics \o PairWarning(variant, marker_1, marker_2)
                /\ UNCHANGED <<scalebars, log>>
    /\ ri' = ri + 1
    /\ UNCHANGED <<variant, pc, stack, step, env, exit_status, error, markers,
                   marker_list, points, flt, stage, dense>>

\* after the loop: image_processor.py updates the transform and saves,
\* process-images.py returns
scale_done ==
    /\ pc = "scale_loop"
    /\ ri > Len(marker_list)
    /\ log' = IF variant = "image_processor"
              THEN Append2(log, Call("updateTransform", "", "add_scalebars"),
                                Call("save", "", "add_scalebars"))
              ELSE log
    /\ Return
    /\ UNCHANGED <<variant, step, env, exit_status, error, markers, marker_list,
                   ri, scalebars, diagnostics, points, flt, stage, dense>>

-----------------------------------------------------------------------------
(* Entry point: add_scalebars called with any rows and any detected markers *)

\* Labels the chunk may hold: detected targets, and a marker placed by hand
LabelChoices == {MARKER_STRING_int(n) : n \in 1..MaxMarkerId} \cup {"point 1"}

\* Rows of the marker file: neighbouring ids with a distance, and a row
\* whose second field keeps the blank that follows the comma
RowChoices ==
    {<<ToString(n), ToString(n + 1), d>> : n \in 1..(MaxMarkerId - 1), d \in {"0.33", "0.50"}}
    \cup {<<"1", " 2", ".5">>}

RECURSIVE SeqsUpTo(_, _)
SeqsUpTo(S, n) ==
    IF n = 0 THEN {<<>>}
    ELSE LET shorter == SeqsUpTo(S, n - 1)
         IN  shorter \cup {Append(q, x) : q \in {r \in shorter : Len(r) = n - 1}, x \in S}

ScaleInit ==
    /\ variant \in Variants
    /\ pc = "add_scalebars"
    /\ stack = <<"done">>
    /\ markers \in SUBSET LabelChoices
    /\ \E rows \in SeqsUpTo(RowChoices, MaxRecords) :
          \E d \in {33, MARKER_DISTANCE} :
             /\ variant = "image_processor" => d = MARKER_DISTANCE
             /\ variant = "process_images" => rows = <<>>
             /\ env = [NoEnv EXCEPT !.marker_file = rows, !.distance = d]
    /\ step = 0
    /\ log = <<>>
    /\ exit_status = -1
    /\ error = ""
    /\ marker_list = <<>>
    /\ ri = 0
    /\ scalebars = <<>>
    /\ diagnostics = <<>>
    /\ points = <<>>
    /\ flt = NoFilter
    /\ stage = 0
    /\ dense = <<>>

ScaleNext ==
    \/ add_scalebars
    \/ scale_loop
    \/ scale_done

SpecScale == ScaleInit /\ [][ScaleNext]_vars

-----------------------------------------------------------------------------
(* Dense cloud: filter_dense_cloud (the same in both programs) *)

MaxDense == 4
MaxCount == 3

\* ALL_VISIBLE_POINTS = list(range(128)): the point classes removePoints gets
ALL_VISIBLE_POINTS == 0..127

\* The class of a point of a cloud that was never classified
\* (Metashape.PointClass.Created)
CreatedClass == 0

\* Defective variant of ConfidenceVisible: the upper end left out
ExclusiveConfidenceVisible(count, min_confidence, max_confidence) ==
    min_confidence <= count /\ count < max_confidence

\* PointCloud.setConfidenceFilter(min_confidence, max_confidence): the points
\* left visible are those whose confidence is in the closed range
ConfidenceVisible(count, min_confidence, max_confidence) ==
    min_confidence <= count /\ count <= max_confidence

\* setConfidenceFilter(0, Filter.DEPTH_MAP_MINIMUM); removePoints(
\* ALL_VISIBLE_POINTS); resetFilters()
RemoveLowConfidence(cloud) ==
    [i \in DOMAIN cloud |->
        IF /\ cloud[i].present
           /\ ConfidenceVisible(cloud[i].count, 0, DEPTH_MAP_MINIMUM)
           /\ cloud[i].class \in ALL_VISIBLE_POINTS
        THEN [cloud[i] EXCEPT !.present = FALSE, !.removed_by = "confidence"]
        ELSE cloud[i]]

\* The engine call that builds the dense cloud: chunk.buildPointCloud in
\* image_processor.py, chunk.buildDenseCloud in process-images.py
BuildCloudCall(v) ==
    IF v = "image_processor" THEN "buildPointCloud" ELSE "buildDenseCloud"

\* The task that decimates the dense cloud: Metashape.Tasks.FilterPointCloud
\* in image_processor.py, Metashape.Tasks.FilterDenseCloud in
\* process-images.py
DecimateTask(v) ==
    IF v = "image_processor" THEN "FilterPointCloud" ELSE "FilterDenseCloud"

\* The decimation task applied with point_spacing: the engine thins the
\* cloud; `keep` is the set of points it retains
Decimated(cloud, keep) ==
    [i \in DOMAIN cloud |->
        IF cloud[i].present /\ i \notin keep
        THEN [cloud[i] EXCEPT !.present = FALSE, !.removed_by = "decimation"]
        ELSE cloud[i]]

Present(cloud) == {i \in DOMAIN cloud : cloud[i].present}

\* filter_dense_cloud, first step: remove the points of low confidence
filter_dense_cloud ==
    /\ pc = "filter_dense_cloud"
    /\ dense' = RemoveLowConfidence(dense)
    /\ log' = Append2(log, Call("setConfidenceFilter", "", "filter_dense_cloud"),
                           Call("removePoints", "dense", "filter_dense_cloud"))
    /\ pc' = "decimate"
    /\ UNCHANGED <<variant, stack, step, env, exit_status, error, markers,
                   marker_list, ri, scalebars, diagnostics, points, flt, stage>>

\* filter_dense_cloud, second step: decimate and save.  Thinning never
\* empties a cloud that has points.
decimate ==
    /\ pc = "decimate"
    /\ \E keep \in SUBSET Present(dense) :
          /\ Present(dense) # {} => keep # {}
          /\ dense' = Decimated(dense, keep)
    /\ log' = Append2(log, Call(DecimateTask(variant), "", "filter_dense_cloud"),
                           Call("save", "", "filter_dense_cloud"))
    /\ Return
    /\ UNCHANGED <<variant, step, env, exit_status, error, markers, marker_list,
                   ri, scalebars, diagnostics, points, flt, stage>>

-----------------------------------------------------------------------------
(* Entry point: filter_dense_cloud called on any freshly built dense cloud *)

DensePointChoices ==
    {[count |-> c, class |-> CreatedClass, present |-> TRUE, removed_by |-> ""] :
        c \in 0..MaxCount}

DenseInit ==
    /\ variant \in Variants
    /\ pc = "filter_dense_cloud"
    /\ stack = <<"done">>
    /\ dense \in [1..MaxDense -> DensePointChoices]
    /\ step = 0
    /\ env = NoEnv
    /\ log = <<>>
    /\ exit_status = -1
    /\ error = ""
    /\ markers = {}
    /\ marker_list = <<>>
    /\ ri = 0
    /\ scalebars = <<>>
    /\ diagnostics = <<>>
    /\ points = <<>>
    /\ flt = NoFilter
    /\ stage = 0

DenseNext ==
    \/ filter_dense_cloud
    \/ decimate

SpecDense == DenseInit /\ [][DenseNext]_vars

-----------------------------------------------------------------------------
(* The run: ImageProcessor(options), then export() or build_point_cloud() *)

MaxImages == 1
MaxRunDense == 2

\* Defective variant of NoImages: the empty result is not noticed
ImagesAlwaysFound(images) == FALSE

\* len(images) == 0 in load_images
NoImages(images) == images = 0

\* The value of an attribute of class Filter (tenths)
FilterValue(attr) ==
    CASE attr = "RECONSTRUCTION_UNCERTAINTY" -> RECONSTRUCTION_UNCERTAINTY
      [] attr = "REPROJECTION_ERROR" -> REPROJECTION_ERROR
      [] attr = "PROJECTION_ACCURACY" -> PROJECTION_ACCURACY
      [] attr = "" -> 0

\* The remove_by_criteria calls of filter_sparse_cloud, in the order of the
\* source: the criterion and the attributes of Filter each call reads
\* (step_attr "" and max_removed 0 are the defaults of the parameters)
SparseStages(v) ==
    IF v = "image_processor"
    THEN << [criterion |-> "ReconstructionUncertainty",
             threshold_attr |-> "RECONSTRUCTION_UNCERTAINTY",
             max_removed |-> FIFTY_PERCENT,
             step_attr |-> "RECONSTRUCTION_UNCERTAINTY_STEP"],
            [criterion |-> "ProjectionAccuracy",
             threshold_attr |-> "PROJECTION_ACCURACY",
             max_removed |-> 0, step_attr |-> ""],
            [criterion |-> "ReprojectionError",
             threshold_attr |-> "REPROJECTION_ERROR",
             max_removed |-> 0, step_attr |-> ""] >>
    ELSE << [criterion |-> "ReprojectionError",
             threshold_attr |-> "REPROJECTION_ERROR",
             max_removed |-> 0, step_attr |-> ""],
            [criterion |-> "ReconstructionUncertainty",
             threshold_attr |-> "RECONSTRUCTION_UNCERTAINTY",
             max_removed |-> 0, step_attr |-> ""],
            [criterion |-> "ProjectionAccuracy",
             threshold_attr |-> "PROJECTION_ACCURACY",
             max_removed |-> 0, step_attr |-> ""] >>

\* The attributes of Filter a stage reads that the class does not define
MissingAttributes(v, s) ==
    ({s.threshold_attr, s.step_attr} \ {""}) \ FilterAttributes(v)

\* The methods build_point_cloud calls, in the order of the source
BuildSteps(v) ==
    IF v = "image_processor"
    THEN <<"align_images", "filter_sparse_cloud", "add_scalebars",
           "build_dense_cloud", "filter_dense_cloud">>
    ELSE <<"align_images", "filter_sparse_cloud",
           "build_dense_cloud", "filter_dense_cloud">>

\* The sets of markers detectMarkers may find
RunMarkerChoices ==
    { {}, {MARKER_STRING_int(1), MARKER_STRING_int(2)},
      {MARKER_STRING_int(n) : n \in 1..3}, {MARKER_STRING_int(n) : n \in 1..MARKER_COUNT} }

\* The tie points alignCameras may produce: each passes every criterion or
\* exceeds the configured threshold of one
RunPointChoices ==
    {[valid |-> TRUE, selected |-> FALSE,
      score |-> [k \in Criteria |->
                    CASE k = "ReconstructionUncertainty" ->
                             RECONSTRUCTION_UNCERTAINTY + (IF bad = k THEN 1 ELSE 0)
                      [] k = "ProjectionAccuracy" ->
                             PROJECTION_ACCURACY + (IF bad = k THEN 1 ELSE 0)
                      [] k = "ReprojectionError" ->
                             REPROJECTION_ERROR + (IF bad = k THEN 1 ELSE 0)]] :
        bad \in Criteria \cup {""}}

RunRank(p) ==
    (p.score["ReconstructionUncertainty"] - RECONSTRUCTION_UNCERTAINTY) * 4
    + (p.score["ProjectionAccuracy"] - PROJECTION_ACCURACY) * 2
    + (p.score["ReprojectionError"] - REPROJECTION_ERROR)

RunClouds ==
    {pts \in [Ids -> RunPointChoices] :
        \A i \in Ids : \A j \in Ids : i < j => RunRank(pts[i]) <= RunRank(pts[j])}

\* The dense clouds buildPointCloud / buildDenseCloud may produce
RunDenseClouds ==
    [1..MaxRunDense ->
        {[count |-> c, class |-> CreatedClass, present |-> TRUE, removed_by |-> ""] :
            c \in {DEPTH_MAP_MINIMUM, DEPTH_MAP_MINIMUM + 1}}]

\* open_or_create_new_project up to load_images
open_or_create_new_project ==
    /\ pc = "open_or_create_new_project"
    /\ IF env.exists
       THEN /\ log' = Append(log, Call("open", "", "open_or_create_new_project"))
            /\ pc' = "main"
       ELSE /\ log' = Append2(log, Call("addChunk", "", "open_or_create_new_project"),
                                   Call("save", "", "open_or_create_new_project"))
            /\ pc' = "load_images"
    /\ UNCHANGED <<variant, stack, step, env, exit_status, error, markers,
                   marker_list, ri, scalebars, diagnostics, points, flt, stage, dense>>

\* load_images; with no image found, save_and_exit: save, then sys.exit(-1)
load_images ==
    /\ pc = "load_images"
    /\ IF NoImages(env.images)
       THEN /\ log' = Append(log, Call("save", "", "save_and_exit"))
            /\ exit_status' = ExitCode(-1)
            /\ error' = "SystemExit"
            /\ pc' = "exited"
            /\ stack' = <<>>
       ELSE /\ log' = Append(log, Call("addPhotos", "", "load_images"))
            /\ pc' = IF variant = "image_processor"
                     THEN "setup_camera" ELSE "detect_and_scale_markers"
            /\ UNCHANGED <<exit_status, error, stack>>
    /\ UNCHANGED <<variant, step, env, markers, marker_list, ri, scalebars,
                   diagnostics, points, flt, stage, dense>>

\* image_processor.py, new project: setup_camera, detectMarkers, save
setup_camera_and_detect ==
    /\ pc = "setup_camera"
    /\ variant = "image_processor"
    /\ markers' \in RunMarkerChoices
    /\ log' = Append2(Append(log, Call("setup_camera", "", "open_or_create_new_project")),
                      Call("detectMarkers", "", "open_or_create_new_project"),
                      Call("save", "", "open_or_create_new_project"))
    /\ pc' = "main"
    /\ UNCHANGED <<variant, stack, step, env, exit_status, error, marker_list, ri,
                   scalebars, diagnostics, points, flt, stage, dense>>

\* process-images.py, new project: detect_and_scale_markers up to its call
\* of add_scalebars
detect_and_scale_markers ==
    /\ pc = "detect_and_scale_markers"
    /\ variant = "process_images"
    /\ markers' \in RunMarkerChoices
    /\ log' = Append(log, Call("detectMarkers", "", "detect_and_scale_markers"))
    /\ diagnostics' =
          IF Cardinality(markers') < MARKER_COUNT
          THEN Append(diagnostics, [kind |-> "not_all_markers", m1 |-> "", m2 |-> ""])
          ELSE diagnostics
    /\ pc' = "add_scalebars"
    /\ stack' = <<"setup_camera">> \o stack
    /\ UNCHANGED <<variant, step, env, exit_status, error, marker_list, ri,
                   scalebars, points, flt, stage, dense>>

\* process-images.py, new project: setup_camera and save, after the markers
setup_camera_legacy ==
    /\ pc = "setup_camera"
    /\ variant = "process_images"
    /\ log' = Append2(log, Call("setup_camera", "", "open_or_create_new_project"),
                           Call("save", "", "open_or_create_new_project"))
    /\ pc' = "main"
    /\ UNCHANGED <<variant, stack, step, env, exit_status, error, markers,
                   marker_list, ri, scalebars, diagnostics, points, flt, stage, dense>>

\* __main__ of process-images.py: export() or build_point_cloud(); the
\* class of image_processor.py is driven the same way
main ==
    /\ pc = "main"
    /\ IF env.export
       THEN /\ log' = IF variant = "image_processor"
                      THEN Append2(log, Call("exportPointCloud", "", "export"),
                                        Call("exportReport", "", "export"))
                      ELSE Append(log, Call("exportPoints", "", "export"))
            /\ pc' = "done"
            /\ exit_status' = ExitCode(0)
            /\ UNCHANGED step
       ELSE /\ pc' = "build_point_cloud"
            /\ step' = 1
            /\ UNCHANGED <<log, exit_status>>
    /\ UNCHANGED <<variant, stack, env, error, markers, marker_list, ri,
                   scalebars, diagnostics, points, flt, stage, dense>>

\* build_point_cloud: call the next method, or finish
build_point_cloud ==
    /\ pc = "build_point_cloud"
    /\ IF step <= Len(BuildSteps(variant))
       THEN /\ pc' = BuildSteps(variant)[step]
            /\ stack' = <<"build_point_cloud">> \o stack
            /\ step' = step + 1
            /\ UNCHANGED exit_status
       ELSE /\ pc' = "done"
            /\ exit_status' = ExitCode(0)
            /\ UNCHANGED <<stack, step>>
    /\ UNCHANGED <<variant, env, log, error, markers, marker_list, ri, scalebars,
                   diagnostics, points, flt, stage, dense>>

\* align_images: matchPhotos, alignCameras, (process-images.py:
\* optimizeCameras,) save.  alignCameras yields the tie points.
align_images ==
    /\ pc = "align_images"
    /\ points' \in RunClouds
    /\ log' = LET aligned == Append2(log, Call("matchPhotos", "", "align_images"),
                                          Call("alignCameras", "", "align_images"))
              IN  IF variant = "process_images"
                  THEN Append2(aligned, Call("optimizeCameras", "", "align_images"),
                                        Call("save", "", "align_images"))
                  ELSE Append(aligned, Call("save", "", "align_images"))
    /\ Return
    /\ UNCHANGED <<variant, step, env, exit_status, error, markers, marker_list,
                   ri, scalebars, diagnostics, flt, stage, dense>>

\* filter_sparse_cloud: evaluate the arguments of the next remove_by_criteria
\* call and make it; after the third stage, save and return
filter_sparse_cloud ==
    /\ pc = "filter_sparse_cloud"
    /\ IF stage < Len(SparseStages(variant))
       THEN LET s == SparseStages(variant)[stage + 1]
            IN  IF MissingAttributes(variant, s) # {}
                THEN /\ Raise("AttributeError")
                     /\ UNCHANGED <<flt, log>>
                ELSE /\ flt' = NextCall(flt, points, s.criterion,
                                        FilterValue(s.threshold_attr),
                                        FilterValue(s.step_attr), s.max_removed)
                     /\ pc' = "remove_by_criteria"
                     /\ stack' = <<"optimize">> \o stack
                     /\ UNCHANGED <<log, error, exit_status>>
       ELSE /\ log' = Append(log, Call("save", "", "filter_sparse_cloud"))
            /\ Return
            /\ UNCHANGED <<flt, error, exit_status>>
    /\ UNCHANGED <<variant, step, env, markers, marker_list, ri, scalebars,
                   diagnostics, points, stage, dense>>

\* filter_sparse_cloud: optimizeCameras after a stage
optimize ==
    /\ pc = "optimize"
    /\ log' = Append(log, Call("optimizeCameras", "", "filter_sparse_cloud"))
    /\ stage' = stage + 1
    /\ pc' = "filter_sparse_cloud"
    /\ UNCHANGED <<variant, stack, step, env, exit_status, error, markers,
                   marker_list, ri, scalebars, diagnostics, points, flt, dense>>

\* build_dense_cloud: buildDepthMaps, buildPointCloud (buildDenseCloud in
\* process-images.py), save
build_dense_cloud ==
    /\ pc = "build_dense_cloud"
    /\ dense' \in RunDenseClouds
    /\ log' = Append2(Append(log, Call("buildDepthMaps", "", "build_dense_cloud")),
                      Call(BuildCloudCall(variant), "", "build_dense_cloud"),
                      Call("save", "", "build_dense_cloud"))
    /\ Return
    /\ UNCHANGED <<variant, step, env, exit_status, error, markers, marker_list,
                   ri, scalebars, diagnostics, points, flt, stage>>

\* The marker file of the run: the two rows of the documented example
ExampleMarkerFile == << <<"1", "2", "0.33">>, <<"3", "4", "0.50">> >>

Init ==
    /\ variant \in Variants
    /\ pc = "open_or_create_new_project"
    /\ stack = <<>>
    /\ step = 0
    /\ \E e \in BOOLEAN :
          \E n \in 0..MaxImages :
             \E x \in BOOLEAN :
                env = [exists |-> e, images |-> n, export |-> x,
                       marker_file |-> ExampleMarkerFile,
                       distance |-> MARKER_DISTANCE]
    /\ log = <<>>
    /\ exit_status = -1
    /\ error = ""
    /\ markers \in IF env.exists THEN RunMarkerChoices ELSE {{}}
    /\ marker_list = <<>>
    /\ ri = 0
    /\ scalebars = <<>>
    /\ diagnostics = <<>>
    /\ points = <<>>
    /\ flt = NoFilter
    /\ stage = 0
    /\ dense = <<>>

Next ==
    \/ open_or_create_new_project
    \/ load_images
    \/ setup_camera_and_detect
    \/ detect_and_scale_markers
    \/ add_scalebars
    \/ scale_loop
    \/ scale_done
    \/ setup_camera_legacy
    \/ main
    \/ build_point_cloud
    \/ align_images
    \/ filter_sparse_cloud
    \/ remove_by_criteria
    \/ optimize
    \/ build_dense_cloud
    \/ filter_dense_cloud
    \/ decimate

Spec == Init /\ [][Next]_vars

-----------------------------------------------------------------------------
(* Entry point: filter_sparse_cloud called on any sparse cloud *)

\* The tie points of a cloud that earlier filtering may have thinned: the
\* points of an alignment, each still valid or already removed
PipelinePointChoices ==
    {[p EXCEPT !.valid = v] : p \in RunPointChoices, v \in BOOLEAN}

PipelineRank(p) == 2 * RunRank(p) + (IF p.valid THEN 0 ELSE 1)

PipelineClouds ==
    {pts \in [Ids -> PipelinePointChoices] :
        \A i \in Ids : \A j \in Ids :
            i < j => PipelineRank(pts[i]) <= PipelineRank(pts[j])}

PipelineInit ==
    /\ variant \in Variants
    /\ pc = "filter_sparse_cloud"
    /\ stack = <<"done">>
    /\ points \in PipelineClouds
    /\ flt = NoFilter
    /\ step = 0
    /\ env = NoEnv
    /\ log = <<>>
    /\ exit_status = -1
    /\ error = ""
    /\ markers = {}
    /\ marker_list = <<>>
    /\ ri = 0
    /\ scalebars = <<>>
    /\ diagnostics = <<>>
    /\ stage = 0
    /\ dense = <<>>

\* The caller invokes filter_sparse_cloud once more on the cloud the
\* invocation that just returned left
invoke_again ==
    /\ pc = "done"
    /\ flt.calls + 1 < MaxCalls
    /\ flt' = [NoFilter EXCEPT !.calls = flt.calls + 1]
    /\ pc' = "filter_sparse_cloud"
    /\ stack' = <<"done">>
    /\ stage' = 0
    /\ UNCHANGED <<variant, step, env, log, exit_status, error, markers,
                   marker_list, ri, scalebars, diagnostics, points, dense>>

PipelineNext ==
    \/ filter_sparse_cloud
    \/ remove_by_criteria
    \/ optimize
    \/ invoke_again

SpecPipeline == PipelineInit /\ [][PipelineNext]_vars

-----------------------------------------------------------------------------
(* Properties of remove_by_criteria and threshold_for_percent (SpecSearch) *)

ValidNow == {i \in DOMAIN points : points[i].valid}

\* The valid points whose score on the call's criterion exceeds t
MarkedAt(t) == {i \in ValidNow : points[i].score[flt.criterion] > t}

\* C1: when threshold_for_percent returns (at least one valid point, a
\* positive step, max_fraction in (0,1]) the returned threshold is at least
\* the initial one and the fraction of the valid points marked at it is at
\* most max_fraction.
C1_ReturnedThresholdWithinCap ==
    (pc = "returned" /\ flt.step_size > 0 /\ flt.valid0 # {}
        /\ flt.max_removed \in 1..100)
    => /\ flt.threshold >= flt.threshold0
       /\ Cardinality(MarkedAt(flt.threshold)) * 100
             <= flt.max_removed * Cardinality(ValidNow)
       /\ \A i \in ValidNow : points[i].selected <=> i \in MarkedAt(flt.threshold)

\* C1 witness: a search that had to raise the threshold returns with some
\* points still marked
C1_Witness ==
    /\ pc = "returned"
    /\ flt.step_size > 0
    /\ flt.threshold > flt.threshold0 + flt.step_size
    /\ MarkedAt(flt.threshold) # {}

\* C2: remove_by_criteria with max_removed = 0 removes exactly the valid
\* points whose score exceeds the given threshold, uses the threshold as
\* given and never runs the search (no selectPoints pass: the selection of
\* every point is what it was at the call).
C2_DirectRemovalNoSearch ==
    (pc = "done" /\ flt.max_removed = 0 /\ flt.criterion # "")
    => /\ flt.valid0 \ ValidNow
            = {i \in flt.valid0 : points[i].score[flt.criterion] > flt.threshold0}
       /\ ValidNow \subseteq flt.valid0
       /\ flt.threshold = flt.threshold0
       /\ ~flt.searched
       /\ \A i \in flt.valid0 : points[i].selected <=> i \in flt.selected0

\* C2 witness: an uncapped call of the image_processor.py method that
\* removed a point and kept another
C2_Witness ==
    /\ pc = "done"
    /\ variant = "image_processor"
    /\ flt.max_removed = 0
    /\ flt.criterion # ""
    /\ flt.valid0 \ ValidNow # {}
    /\ ValidNow # {}

\* C7: a search invoked on a cloud with no valid point fails with
\* EmptyPointSetError, never with a division by zero.
C7_EmptyPointSetError ==
    (flt.searched /\ flt.valid0 = {}) => error = "EmptyPointSetError"

\* C8: the threshold search always terminates (with the threshold, or
\* failing with SearchNonConvergence); it never loops for ever.
C8_SearchTerminates == <>(pc \in {"done", "crashed"})

-----------------------------------------------------------------------------
(* Properties of add_scalebars (SpecScale) *)

\* Rows the loop has gone through
Processed == 1..(IF ri - 1 < Len(marker_list) THEN ri - 1 ELSE Len(marker_list))

\* Both markers of row k are among the detected ones
Resolved(k) ==
    /\ RowLabels(variant, marker_list[k])[1] \in markers
    /\ RowLabels(variant, marker_list[k])[2] \in markers

\* The scale bars and the warnings that rows 1..n call for, in order
RECURSIVE ExpectedBars(_)
ExpectedBars(n) ==
    IF n = 0 THEN <<>>
    ELSE IF Resolved(n)
         THEN Append(ExpectedBars(n - 1),
                     [m1 |-> RowLabels(variant, marker_list[n])[1],
                      m2 |-> RowLabels(variant, marker_list[n])[2],
                      accuracy |-> ScalebarAccuracy(variant),
                      distance |-> RowDistance(variant, marker_list[n], env.distance)])
         ELSE ExpectedBars(n - 1)

RECURSIVE ExpectedWarnings(_)
ExpectedWarnings(n) ==
    IF n = 0 THEN <<>>
    ELSE IF Resolved(n)
         THEN ExpectedWarnings(n - 1)
         ELSE Append(ExpectedWarnings(n - 1),
                     [kind |-> "pair_not_found",
                      m1 |-> RowLabels(variant, marker_list[n])[1],
                      m2 |-> RowLabels(variant, marker_list[n])[2]])

\* C4: every registered scale bar links two detected markers, and a record
\* with an undetected endpoint registers no scale bar: there are exactly as
\* many bars as fully detected records gone through, none for another pair.
C4_ScaleBarsOnlyForDetectedPairs ==
    /\ \A k \in DOMAIN scalebars :
          scalebars[k].m1 \in markers /\ scalebars[k].m2 \in markers
    /\ Len(scalebars) = Cardinality({k \in Processed : Resolved(k)})
    /\ \A k \in Processed :
          ~Resolved(k) =>
             ~\E j \in DOMAIN scalebars :
                 /\ scalebars[j].m1 = RowLabels(variant, marker_list[k])[1]
                 /\ scalebars[j].m2 = RowLabels(variant, marker_list[k])[2]

\* C4 witness: a finished call that registered a bar and skipped a record of
\* which exactly one marker was detected
C4_Witness ==
    /\ pc = "done"
    /\ scalebars # <<>>
    /\ \E k \in Processed :
          /\ ~Resolved(k)
          /\ RowLabels(variant, marker_list[k])[1] \in markers

\* C5: a finished add_scalebars has printed exactly one warning, naming the
\* pair, for each record whose pair is not fully detected, and has registered
\* every record whose pair is detected, whatever came before it.
C5_OneWarningPerUnresolvedRecord ==
    (pc = "done" /\ ri > 0)
    => /\ diagnostics = ExpectedWarnings(Len(marker_list))
       /\ scalebars = ExpectedBars(Len(marker_list))

-----------------------------------------------------------------------------
(* Properties of filter_dense_cloud (SpecDense) *)

\* C6 as stated: the confidence filter removes exactly the points whose
\* depth-map count is strictly below the configured minimum and keeps every
\* point whose count is equal to or above it.
C6_RemovesStrictlyBelowMinimum ==
    pc = "decimate"
    => \A i \in DOMAIN dense :
          ~dense[i].present <=> dense[i].count < DEPTH_MAP_MINIMUM

\* C6 amended: the confidence filter removes exactly the points whose
\* depth-map count is at most Filter.DEPTH_MAP_MINIMUM and keeps every point
\* whose count is above it; what it removed stays removed.
C6_RemovesUpToMinimum ==
    /\ pc = "decimate"
       => \A i \in DOMAIN dense :
             ~dense[i].present <=> dense[i].count <= DEPTH_MAP_MINIMUM
    /\ pc \in {"decimate", "done"}
       => \A i \in DOMAIN dense :
             dense[i].removed_by = "confidence" <=> dense[i].count <= DEPTH_MAP_MINIMUM

\* C6 witness: counts 0, 1, 2, 3 with the points of count 0 and 1 removed
\* and those of count 2 and 3 kept
C6_Witness ==
    /\ pc = "decimate"
    /\ Len(dense) >= 4
    /\ \A i \in 1..4 : dense[i].count = i - 1
    /\ ~dense[1].present /\ ~dense[2].present
    /\ dense[3].present /\ dense[4].present

-----------------------------------------------------------------------------
(* Properties of the run (Spec) *)

IsSparseCall(e) == e.by = "filter_sparse_cloud"

\* What filter_sparse_cloud asked of the engine, in order
SparseTrace == SelectSeq(log, IsSparseCall)

\* filter_sparse_cloud was called and is over (it returned or it failed)
SparseOver ==
    /\ step >= 3
    /\ pc \notin {"filter_sparse_cloud", "remove_by_criteria", "optimize"}

\* C3: one run of filter_sparse_cloud removes by ReconstructionUncertainty,
\* ProjectionAccuracy, ReprojectionError in that order and optimizes the
\* cameras exactly three times, each time right after one stage.
C3_ThreeStagesEachOptimized ==
    SparseOver
    => SparseTrace =
          << Call("removePoints", "ReconstructionUncertainty", "filter_sparse_cloud"),
             Call("optimizeCameras", "", "filter_sparse_cloud"),
             Call("removePoints", "ProjectionAccuracy", "filter_sparse_cloud"),
             Call("optimizeCameras", "", "filter_sparse_cloud"),
             Call("removePoints", "ReprojectionError", "filter_sparse_cloud"),
             Call("optimizeCameras", "", "filter_sparse_cloud"),
             Call("save", "", "filter_sparse_cloud") >>

\* C9: when no source image is found the run saves the project and then
\* ends with a non-zero status; nothing runs after the save (no addPhotos,
\* camera setup, marker detection, alignment or filtering).
C9_NoImagesSaveThenExit ==
    (~env.exists /\ env.images = 0
        /\ pc \notin {"open_or_create_new_project", "load_images"})
    => /\ pc = "exited"
       /\ exit_status \in 1..255
       /\ log = << Call("addChunk", "", "open_or_create_new_project"),
                   Call("save", "", "open_or_create_new_project"),
                   Call("save", "", "save_and_exit") >>

\* C9 witness: a run on a new project that found no image and has ended
C9_Witness ==
    /\ pc = "exited"
    /\ env.images = 0
    /\ exit_status = 255
    /\ log[Len(log)] = Call("save", "", "save_and_exit")

Registrations == {i \in DOMAIN log : log[i].call = "add_scalebars"}

\* C10: in every run of build_point_cloud the scale bars are registered
\* exactly once, after marker detection and before the first removal stage,
\* so every removal and camera optimization of the sparse pipeline comes
\* after the registration.
C10_ScaleBarsOnceBeforeSparseFilter ==
    /\ Cardinality(Registrations) <= 1
    /\ \A i \in DOMAIN log :
          IsSparseCall(log[i])
          => \E j \in Registrations :
                /\ j < i
                /\ \E k \in 1..(j - 1) : log[k].call = "detectMarkers"
    /\ (step >= 1 /\ pc \in {"done", "crashed"}) => Cardinality(Registrations) = 1


\* The points that the calls of remove_by_criteria so far have removed: those
\* of the calls before the current one and those of the current one
RemovedSoFar == flt.removed \cup (flt.valid0 \ ValidNow)

\* The threshold search of the current call is past its first marking
InSearch == flt.searched /\ pc \in {"while", "loop_body", "returned"}

\* What a removed point is excluded from: it is invalid, no search marks
\* it, and neither count of the fraction (selected_points over
\* sparse_points) includes it
RemovedStayOut ==
    /\ \A i \in RemovedSoFar : ~points[i].valid
    /\ flt.removed \cap flt.valid0 = {}
    /\ InSearch =>
        /\ \A i \in RemovedSoFar : ~points[i].selected
        /\ flt.selected_points =
              Cardinality({i \in DOMAIN points \ RemovedSoFar : points[i].selected})
        /\ flt.sparse_points =
              Cardinality({i \in (DOMAIN points \ RemovedSoFar) \cap flt.valid0 :
                              i \notin flt.selected0})

\* C11: a point removed by a removal stage is never valid again: no step
\* makes an invalid point valid, and in every later state the point is marked
\* by no later search and counted in neither the numerator nor the
\* denominator of a later search's fraction.
C11_RemovedPointsStayRemoved ==
    /\ []RemovedStayOut
    /\ [][\A i \in DOMAIN points : ~points[i].valid => ~points'[i].valid]_vars

\* A later call's search is at its fraction check, after an earlier call
\* removed a point and with a point still valid
C11_Witness ==
    /\ flt.calls >= 1
    /\ pc = "while"
    /\ flt.removed # {}
    /\ ValidNow # {}
    /\ RemovedStayOut


-----------------------------------------------------------------------------
(* Properties of filter_sparse_cloud (SpecPipeline) *)

\* The cloud the current invocation of filter_sparse_cloud was entered with
\* was filtered to convergence: none of its valid points is above the
\* threshold of any stage
EntryConverged ==
    \A i \in ValidNow \cup RemovedSoFar :
        \A k \in DOMAIN SparseStages(variant) :
            points[i].score[SparseStages(variant)[k].criterion]
                <= FilterValue(SparseStages(variant)[k].threshold_attr)

\* The current stage of filter_sparse_cloud is the capped one
CappedStage ==
    /\ stage < Len(SparseStages(variant))
    /\ SparseStages(variant)[stage + 1].max_removed > 0

\* C12: filter_sparse_cloud invoked on a cloud that an earlier invocation
\* filtered to convergence returns having removed no point, and its capped
\* stage's threshold search returned after the first fraction check, the
\* threshold still the initial one.
C12_SecondInvocationRemovesNothing ==
    EntryConverged =>
        /\ pc \in {"done", "crashed"} => pc = "done" /\ RemovedSoFar = {}
        /\ pc = "optimize" /\ CappedStage =>
              /\ flt.searched
              /\ flt.threshold = flt.threshold0
              /\ ValidNow = flt.valid0


-----------------------------------------------------------------------------
(* Properties of add_scalebars: the transform update (SpecScale) *)

\* The positions of the log at which the engine call `c` was made
CallsOf(c) == {k \in DOMAIN log : log[k].call = c}

\* C13: a calibration run (add_scalebars) calls updateTransform exactly
\* once: not while scale records are still being processed, once when the
\* run is over, whether or not a scale bar was registered, after every
\* addScalebar call and with no optimizeCameras call between the start of
\* the run and the update.
C13_TransformUpdatedOnceAfterRecords ==
    /\ pc = "scale_loop" => CallsOf("updateTransform") = {}
    /\ (pc = "done" /\ ri > 0) =>
          /\ Cardinality(CallsOf("updateTransform")) = 1
          /\ \A u \in CallsOf("updateTransform") :
                /\ \A a \in CallsOf("addScalebar") : a < u
                /\ \A o \in CallsOf("optimizeCameras") :
                      \A s \in CallsOf("add_scalebars") : ~(s < o /\ o < u)


-----------------------------------------------------------------------------
(* Properties of threshold_for_percent: the fraction (SpecSearch) *)

\* C14: at every check of the threshold search the fraction compared with
\* the cap is the number of valid points marked at the current threshold
\* over the number of all valid points of the cloud, whatever was selected
\* when the search was entered.
C14_FractionOverAllValidPoints ==
    (InSearch /\ pc = "while") =>
        /\ flt.selected_points = Cardinality(MarkedAt(flt.threshold))
        /\ flt.sparse_points = Cardinality(ValidNow)
        /\ Cardinality(ValidNow) = Cardinality(flt.valid0)


\* The number of steps the returned threshold is above the initial one
GridIndex ==
    IF flt.step_size = 0 THEN 0
    ELSE (flt.threshold - flt.threshold0) \div flt.step_size

\* The fraction of the valid points marked at threshold t exceeds the cap
MarkedFractionExceedsCap(t) ==
    ExceedsCap(Cardinality(MarkedAt(t)), Cardinality(ValidNow), flt.max_removed)

\* C15: the threshold the search returns is initial_threshold + k * step_size
\* for the smallest k >= 0 at which the marked fraction of the valid points
\* is at most the cap: at the returned threshold the fraction is within the
\* cap and at every smaller threshold of the grid it exceeds the cap.
C15_ReturnedThresholdMinimalOnGrid ==
    pc = "returned" =>
        /\ flt.threshold = flt.threshold0 + GridIndex * flt.step_size
        /\ ~MarkedFractionExceedsCap(flt.threshold)
        /\ \A j \in 0..(GridIndex - 1) :
              MarkedFractionExceedsCap(flt.threshold0 + j * flt.step_size)


-----------------------------------------------------------------------------
(* Properties of filter_sparse_cloud: the first stage (SpecPipeline) *)

\* C16: the first stage of filter_sparse_cloud is a remove_by_criteria call
\* on ReconstructionUncertainty with max_removed 50% and a positive step
\* size read from Filter: reading its arguments raises nothing, and when the
\* stage is over it has removed at most half of the points that were valid
\* when it started.
C16_FirstStageCappedWithDefinedStep ==
    /\ (pc = "crashed" /\ stage = 0) => error # "AttributeError"
    /\ (pc = "remove_by_criteria" /\ stage = 0) =>
          /\ flt.criterion = "ReconstructionUncertainty"
          /\ flt.max_removed = FIFTY_PERCENT
          /\ flt.step_size > 0
    /\ (pc = "optimize" /\ stage = 0) =>
          2 * Cardinality(flt.valid0 \ ValidNow) <= Cardinality(flt.valid0)

====
